---- MODULE Spec2Model ----
(***************************************************************************)
(* A model of the query-filter builder (src/app/models/params.py) and of   *)
(* the error-normalising middleware (src/app/middleware/http_middleware.py)*)
(*                                                                         *)
(* Python values are records tagged with their type name in field t.       *)
(* A Python object is a record with its class and the attributes that its  *)
(* constructor actually assigned: reading an attribute that was never      *)
(* assigned raises AttributeError.  The outcome of a call is either a      *)
(* returned value or a raised exception.                                   *)
(***************************************************************************)
EXTENDS Integers, Sequences, FiniteSets, TLC

VARIABLES self, self0, calls, thrown, response

vars == <<self, self0, calls, thrown, response>>

\* ------------------------------------------------------------------------
\* Bounds of the model.
MaxElements == 2   \* longest filter_elements list that is constructed
MaxCalls == 2      \* method calls made on one constructed filter

\* ------------------------------------------------------------------------
\* Python values.
PyNone == [t |-> "NoneType"]
PyBool(b) == [t |-> "bool", b |-> b]
PyInt(i) == [t |-> "int", i |-> i]
\* a float with one decimal digit, held in tenths: PyFloat(25) is 2.5
PyFloat(n) == [t |-> "float", tenths |-> n]
PyStr(s) == [t |-> "str", s |-> s]
PyList(items) == [t |-> "list", items |-> items]
PyTuple(items) == [t |-> "tuple", items |-> items]
PyDict(d) == [t |-> "dict", d |-> d]
\* an instance of a class with no JSON form (a set, a bytes, a model object)
PyOpaque == [t |-> "set"]
PyObject(cls, attrs) == [t |-> "object", cls |-> cls, attrs |-> attrs]

EmptyDict == PyDict(<<>>)

\* The outcome of a call.
Return(v) == [kind |-> "return", val |-> v, exc |-> ""]
Raise(e) == [kind |-> "raise", val |-> PyNone, exc |-> e]

\* isinstance(v, cls) for the builtin classes; bool is a subclass of int.
isinstance(v, cls) == v.t = cls \/ (cls = "int" /\ v.t = "bool")

\* Truth value testing, as `not x` applies it.
Truthy(v) ==
    CASE v.t = "NoneType" -> FALSE
      [] v.t = "bool" -> v.b
      [] v.t = "int" -> v.i # 0
      [] v.t = "float" -> v.tenths # 0
      [] v.t = "str" -> v.s # ""
      [] v.t = "list" -> v.items # <<>>
      [] v.t = "tuple" -> v.items # <<>>
      [] v.t = "dict" -> DOMAIN v.d # {}
      [] OTHER -> TRUE

hasattr(obj, name) == name \in DOMAIN obj.attrs

\* ------------------------------------------------------------------------
\* str() and repr(), as the f-string of the CONTAIN branch applies them.
Digit(d) ==
    CASE d = 0 -> "0" [] d = 1 -> "1" [] d = 2 -> "2" [] d = 3 -> "3"
      [] d = 4 -> "4" [] d = 5 -> "5" [] d = 6 -> "6" [] d = 7 -> "7"
      [] d = 8 -> "8" [] d = 9 -> "9"

RECURSIVE NatToStr(_)
NatToStr(n) == IF n < 10 THEN Digit(n) ELSE NatToStr(n \div 10) \o Digit(n % 10)

IntToStr(i) == IF i < 0 THEN "-" \o NatToStr(-i) ELSE NatToStr(i)

RECURSIVE repr(_)
RECURSIVE ReprItems(_)
RECURSIVE ReprEntries(_, _)

ReprItems(items) ==
    IF items = <<>> THEN ""
    ELSE IF Len(items) = 1 THEN repr(items[1])
    ELSE repr(items[1]) \o ", " \o ReprItems(Tail(items))

\* The entries of a dict; the filter values built here hold one key at most.
ReprEntries(d, keys) ==
    IF keys = {} THEN ""
    ELSE LET k == CHOOSE x \in keys : TRUE
             rest == keys \ {k}
         IN "'" \o k \o "': " \o repr(d[k])
            \o (IF rest = {} THEN "" ELSE ", " \o ReprEntries(d, rest))

repr(v) ==
    CASE v.t = "NoneType" -> "None"
      [] v.t = "bool" -> (IF v.b THEN "True" ELSE "False")
      [] v.t = "int" -> IntToStr(v.i)
      [] v.t = "float" -> IntToStr(v.tenths \div 10) \o "." \o Digit(v.tenths % 10)
      [] v.t = "str" -> "'" \o v.s \o "'"
      [] v.t = "list" -> "[" \o ReprItems(v.items) \o "]"
      [] v.t = "dict" -> "{" \o ReprEntries(v.d, DOMAIN v.d) \o "}"
      [] OTHER -> "<" \o v.t \o ">"

str(v) == IF v.t = "str" THEN v.s ELSE repr(v)

\* ------------------------------------------------------------------------
\* The operator enumerations, in definition order.
OP_FIELD ==
    "EQ" :> "$eq" @@ "NE" :> "$ne" @@ "CONTAIN" :> "$regex" @@ "IN" :> "$in"
    @@ "NOT_IN" :> "$nin" @@ "GT" :> "$gt" @@ "GTE" :> "$gte" @@ "LT" :> "$lt"
    @@ "LTE" :> "$lte" @@ "NOT" :> "$not"

OP_FIELD_members ==
    <<"$eq", "$ne", "$regex", "$in", "$nin", "$gt", "$gte", "$lt", "$lte", "$not">>

OP == "AND" :> "$and" @@ "OR" :> "$or" @@ "NOR" :> "$nor"

OP_members == <<"$and", "$or", "$nor">>

\* ------------------------------------------------------------------------
\* The constructors: each assigns exactly the attributes its __init__ does.
Filter(value, operator_field, field, filter_elements, operator) ==
    PyObject("Filter",
        [value |-> value, operator_field |-> operator_field, field |-> field,
         filter_elements |-> filter_elements, operator |-> operator])

SingleFilter(value, operator_field, field) ==
    PyObject("SingleFilter",
        [value |-> value, operator_field |-> operator_field, field |-> field])

CombinedFilter(filter_elements, operator) ==
    PyObject("CombinedFilter",
        [filter_elements |-> filter_elements, operator |-> operator])

\* ------------------------------------------------------------------------
\* Filter.checkForList, Filter.checkForNum: None, or the ValueError raised.
checkForList(obj, value) ==
    IF ~isinstance(obj.attrs.value, "list") THEN Raise("ValueError")
    ELSE Return(PyNone)

\* checkForNum testing for int alone
checkForNumIntOnly(obj, value) ==
    IF ~isinstance(obj.attrs.value, "int") THEN Raise("ValueError")
    ELSE Return(PyNone)

checkForNum(obj, value) ==
    IF ~isinstance(obj.attrs.value, "int") /\ ~isinstance(obj.attrs.value, "float")
    THEN Raise("ValueError")
    ELSE Return(PyNone)

\* l_request[self.field] = body: the one-key document {field: body}.
FieldDoc(field, body) == PyDict(field.s :> body)

\* the sub-document keyed by $eq whatever the operator
OperatorDocEqKey(op, value) == PyDict(OP_FIELD["EQ"] :> value)

\* {self.operator_field: self.value}
OperatorDoc(op, value) == PyDict(op.s :> value)

\* Filter.doBuildSingle
doBuildSingle(obj) ==
    IF ~hasattr(obj, "operator_field") THEN Raise("AttributeError")
    ELSE LET op == obj.attrs.operator_field
             F == obj.attrs.field
             V == obj.attrs.value
         IN IF op = PyStr(OP_FIELD["EQ"]) THEN Return(FieldDoc(F, V))
            ELSE IF op = PyStr(OP_FIELD["NE"]) THEN Return(FieldDoc(F, OperatorDoc(op, V)))
            ELSE IF op = PyStr(OP_FIELD["NOT"]) THEN Return(FieldDoc(F, OperatorDoc(op, V)))
            ELSE IF op = PyStr(OP_FIELD["CONTAIN"]) THEN
                Return(FieldDoc(F, PyDict(op.s :> PyStr(".*" \o str(V) \o ".*")
                                          @@ "$options" :> PyStr("i"))))
            ELSE IF op = PyStr(OP_FIELD["IN"]) \/ op = PyStr(OP_FIELD["NOT_IN"]) THEN
                IF checkForList(obj, V).kind = "raise" THEN checkForList(obj, V)
                ELSE Return(FieldDoc(F, OperatorDoc(op, V)))
            ELSE IF op \in {PyStr(OP_FIELD["GT"]), PyStr(OP_FIELD["GTE"]),
                            PyStr(OP_FIELD["LT"]), PyStr(OP_FIELD["LTE"])} THEN
                IF checkForNum(obj, V).kind = "raise" THEN checkForNum(obj, V)
                ELSE Return(FieldDoc(F, OperatorDoc(op, V)))
            ELSE Return(EmptyDict)

\* A call self.doBuildSingle(*args): the method takes no argument but self.
doBuildSingleCall(obj, args) ==
    IF Len(args) # 0 THEN Raise("TypeError") ELSE doBuildSingle(obj)

\* Filter.doBuildCombined
doBuildCombined(obj, elements) ==
    IF ~hasattr(obj, "operator") THEN Raise("AttributeError")
    ELSE IF obj.attrs.operator \in {PyStr(OP["AND"]), PyStr(OP["OR"]), PyStr(OP["NOR"])}
         THEN Return(PyDict(obj.attrs.operator.s :> elements))
         ELSE Return(EmptyDict)

\* [ self.doBuildSingle(single_filter) for single_filter in items ]
RECURSIVE Comprehension(_, _, _)
Comprehension(obj, items, acc) ==
    IF items = <<>> THEN Return(PyList(acc))
    ELSE LET r == doBuildSingleCall(obj, <<Head(items)>>)
         IN IF r.kind = "raise" THEN r
            ELSE Comprehension(obj, Tail(items), Append(acc, r.val))

\* Filter.make
make(obj) ==
    IF ~hasattr(obj, "filter_elements") THEN Raise("AttributeError")
    ELSE IF ~Truthy(obj.attrs.filter_elements) THEN doBuildSingleCall(obj, <<>>)
    ELSE LET elements == Comprehension(obj, obj.attrs.filter_elements.items, <<>>)
         IN IF elements.kind = "raise" THEN elements
            ELSE IF doBuildCombined(obj, elements.val).kind = "raise"
                 THEN doBuildCombined(obj, elements.val)
                 ELSE Return(EmptyDict)

\* make storing the CONTAIN pattern back into self.value
makeEffectStoresPattern(obj) ==
    IF hasattr(obj, "value") /\ hasattr(obj, "operator_field")
       /\ obj.attrs.operator_field = PyStr(OP_FIELD["CONTAIN"])
    THEN [obj EXCEPT !.attrs.value = PyStr(".*" \o str(@) \o ".*")]
    ELSE obj

\* The object after make: make and the builders assign no attribute of self.
makeEffect(obj) == obj

\* `for op in <enum>: if tag == op.value: return True; else: return False`
RECURSIVE applyLoop(_, _)
applyLoop(tag, members) ==
    IF members = <<>> THEN Return(PyNone)
    ELSE IF tag = PyStr(Head(members)) THEN Return(PyBool(TRUE))
    ELSE Return(PyBool(FALSE))

\* Filter.apply, SingleFilter.apply, CombinedFilter.apply
apply(obj) ==
    CASE obj.cls = "SingleFilter" -> applyLoop(obj.attrs.operator_field, OP_FIELD_members)
      [] obj.cls = "CombinedFilter" -> applyLoop(obj.attrs.operator, OP_members)
      [] OTHER -> Raise("NotImplementedError")

\* ------------------------------------------------------------------------
\* The middleware.  An exception is an object of a class with its base
\* classes; error_content is a dict in insertion order, which is the order
\* json.dumps writes.
Bases(cls) ==
    CASE cls = "HTTPException" -> {"HTTPException", "Exception", "BaseException"}
      [] cls = "CancelledError" -> {"CancelledError", "BaseException"}
      [] OTHER -> {cls, "Exception", "BaseException"}

RaiseObj(e) == [kind |-> "raise", val |-> e, exc |-> e.cls]

OrderedDict(entries) == [t |-> "odict", entries |-> entries]

\* error_content[key] = value: a new key goes last.
SetItem(od, key, value) == OrderedDict(Append(od.entries, <<key, value>>))

RECURSIVE JsonSerializable(_)
JsonSerializable(v) ==
    CASE v.t \in {"NoneType", "bool", "int", "float", "str"} -> TRUE
      [] v.t \in {"list", "tuple"} ->
            \A i \in DOMAIN v.items : JsonSerializable(v.items[i])
      [] v.t = "dict" -> \A k \in DOMAIN v.d : JsonSerializable(v.d[k])
      [] v.t = "odict" ->
            \A i \in DOMAIN v.entries : JsonSerializable(v.entries[i][2])
      [] OTHER -> FALSE

RECURSIVE JsonText(_)
RECURSIVE JsonItems(_)
RECURSIVE JsonEntries(_)
RECURSIVE JsonKeys(_, _)

JsonItems(items) ==
    IF items = <<>> THEN ""
    ELSE IF Len(items) = 1 THEN JsonText(items[1])
    ELSE JsonText(items[1]) \o ", " \o JsonItems(Tail(items))

JsonEntries(entries) ==
    IF entries = <<>> THEN ""
    ELSE "\"" \o entries[1][1] \o "\": " \o JsonText(entries[1][2])
         \o (IF Len(entries) = 1 THEN "" ELSE ", " \o JsonEntries(Tail(entries)))

JsonKeys(d, keys) ==
    IF keys = {} THEN ""
    ELSE LET k == CHOOSE x \in keys : TRUE
             rest == keys \ {k}
         IN "\"" \o k \o "\": " \o JsonText(d[k])
            \o (IF rest = {} THEN "" ELSE ", " \o JsonKeys(d, rest))

JsonText(v) ==
    CASE v.t = "NoneType" -> "null"
      [] v.t = "bool" -> (IF v.b THEN "true" ELSE "false")
      [] v.t = "int" -> IntToStr(v.i)
      [] v.t = "float" -> IntToStr(v.tenths \div 10) \o "." \o Digit(v.tenths % 10)
      [] v.t = "str" -> "\"" \o v.s \o "\""
      [] v.t \in {"list", "tuple"} -> "[" \o JsonItems(v.items) \o "]"
      [] v.t = "dict" -> "{" \o JsonKeys(v.d, DOMAIN v.d) \o "}"
      [] v.t = "odict" -> "{" \o JsonEntries(v.entries) \o "}"

\* json.dumps: the text, or TypeError for a value with no JSON form.
json_dumps(v) ==
    IF JsonSerializable(v) THEN Return(PyStr(JsonText(v))) ELSE Raise("TypeError")

Response(status_code, content, headers) ==
    PyObject("Response",
        [status_code |-> status_code, body |-> content, headers |-> headers])

\* The body of either except clause of dispatch (the two are the same text).
handler(e) ==
    LET status0 == PyInt(500)
        detail0 == PyStr("Internal server error.")
        content0 == OrderedDict(<< <<"detail", detail0>> >>)
        status_code == IF hasattr(e, "status_code") THEN e.attrs.status_code ELSE status0
        \* error_detail is rebound after error_content was built, and not read again
        error_detail == IF hasattr(e, "detail") THEN e.attrs.detail ELSE detail0
        content1 == IF hasattr(e, "obj") THEN SetItem(content0, "obj", e.attrs.obj)
                    ELSE content0
        content2 == IF hasattr(e, "args") THEN SetItem(content1, "args", e.attrs.args)
                    ELSE content1
        content3 == IF hasattr(e, "_errors")
                    THEN SetItem(content2, "errors", e.attrs["_errors"])
                    ELSE content2
        text == json_dumps(content3)
    IN IF text.kind = "raise" THEN text
       ELSE Return(Response(status_code, text.val,
                            PyDict("Content-Type" :> PyStr("application/json"))))

\* CustomMiddleware.dispatch, given what call_next did.
dispatch(next) ==
    IF next.kind = "return" THEN next
    ELSE IF "HTTPException" \in Bases(next.exc) THEN handler(next.val)
    ELSE IF "Exception" \in Bases(next.exc) THEN handler(next.val)
    ELSE Raise(next.exc)

\* ------------------------------------------------------------------------
\* The filters that are constructed.  Values are what a JSON request body
\* decodes to; operator tags are the wire tokens and some tags outside them.
Values ==
    {PyNone, PyBool(TRUE), PyInt(5), PyFloat(25), PyStr("bob"), PyStr(""),
     PyList(<<PyStr("x"), PyStr("y")>>), PyList(<<>>), PyDict("$gt" :> PyInt(5))}

FieldTokens == {OP_FIELD_members[i] : i \in DOMAIN OP_FIELD_members}

CombineTokens == {OP_members[i] : i \in DOMAIN OP_members}

FieldTags == {PyStr(s) : s \in FieldTokens \cup {"$foo", "GT"}}

CombineTags == {PyStr(s) : s \in CombineTokens \cup {"$xor", "AND"}}

Fields == {PyStr("age"), PyStr("name")}

ElementPool ==
    {SingleFilter(v, op, PyStr("age")) :
        v \in {PyInt(5), PyStr("bob")}, op \in {PyStr("$eq"), PyStr("$gt")}}

ElementLists == UNION {[1..n -> ElementPool] : n \in 0..MaxElements}

NoObject == PyNone

NoResponse == [kind |-> "none", val |-> PyNone, exc |-> ""]

Init ==
    /\ self = NoObject
    /\ self0 = NoObject
    /\ calls = <<>>
    /\ thrown = NoResponse
    /\ response = NoResponse

Construct(obj) ==
    /\ self = NoObject
    /\ self' = obj
    /\ self0' = obj
    /\ UNCHANGED <<calls, thrown, response>>

NewSingleFilter ==
    \E v \in Values, op \in FieldTags, f \in Fields : Construct(SingleFilter(v, op, f))

NewCombinedFilter ==
    \E es \in ElementLists, op \in CombineTags : Construct(CombinedFilter(PyList(es), op))

NewFilter ==
    \/ \E v \in Values, op \in FieldTags, f \in Fields :
          Construct(Filter(v, op, f, PyNone, PyNone))
    \/ \E es \in ElementLists, op \in CombineTags :
          Construct(Filter(PyNone, PyNone, PyNone, PyList(es), op))

Called(name, out) ==
    /\ self # NoObject
    /\ Len(calls) < MaxCalls
    /\ calls' = Append(calls, [call |-> name, out |-> out])
    /\ UNCHANGED <<self0, thrown, response>>

CallMake == Called("make", make(self)) /\ self' = makeEffect(self)

CallDoBuildSingle == Called("doBuildSingle", doBuildSingleCall(self, <<>>)) /\ self' = self

CallApply == Called("apply", apply(self)) /\ self' = self

Next ==
    \/ NewSingleFilter
    \/ NewCombinedFilter
    \/ NewFilter
    \/ CallMake
    \/ CallDoBuildSingle
    \/ CallApply

Spec == Init /\ [][Next]_vars

\* ------------------------------------------------------------------------
\* What call_next does: it returns the route's response, or raises an error
\* that exposes some of the attributes the handler probes.  Every exception
\* has args; an HTTPException always has status_code and detail.
Absent == [t |-> "absent"]

Opt(name, v) == IF v = Absent THEN <<>> ELSE name :> v

ErrorAttrs ==
    {Opt("status_code", sc) @@ Opt("detail", d) @@ Opt("obj", o)
        @@ Opt("args", a) @@ Opt("_errors", es) :
        sc \in {Absent, PyInt(404)},
        d \in {Absent, PyStr("Not found")},
        o \in {Absent, PyStr("doc"), PyOpaque},
        a \in {PyTuple(<<>>), PyTuple(<<PyStr("boom")>>), PyTuple(<<PyOpaque>>)},
        es \in {Absent, PyList(<<PyStr("missing field")>>), PyOpaque}}

Errors ==
    {PyObject("HTTPException", A) :
        A \in {X \in ErrorAttrs : {"status_code", "detail"} \subseteq DOMAIN X}}
    \cup {PyObject(c, A) : c \in {"ValueError", "CancelledError"}, A \in ErrorAttrs}

RouteResponses ==
    {Response(PyInt(200), PyStr("[]"), PyDict("Content-Type" :> PyStr("application/json")))}

Dispatched(next) ==
    /\ thrown' = next
    /\ response' = dispatch(next)
    /\ UNCHANGED <<self, self0, calls>>

Dispatch ==
    \/ \E r \in RouteResponses : Dispatched(Return(r))
    \/ \E e \in Errors : Dispatched(RaiseObj(e))

NextMiddleware == Dispatch

SpecMiddleware == Init /\ [][NextMiddleware]_vars

\* ========================================================================
\* The claims.
IsA(cls) == self.t = "object" /\ self.cls = cls

\* the outcomes of the calls of one method made so far
OutsOf(name) == {calls[i].out : i \in {j \in DOMAIN calls : calls[j].call = name}}

\* The claims' reading of the type constraints: a sequence is a list, and a
\* number is an int or a float (of which Python's bool is a subclass).
ConstraintViolated(op, V) ==
    \/ op.s \in {"$in", "$nin"} /\ V.t # "list"
    \/ op.s \in {"$gt", "$gte", "$lt", "$lte"} /\ V.t \notin {"int", "float", "bool"}

\* The operator table of the single-filter compilation, as the claims give it.
TableDoc(F, V, op) ==
    CASE op.s = "$eq" -> PyDict(F.s :> V)
      [] op.s = "$regex" ->
            PyDict(F.s :> PyDict("$regex" :> PyStr(".*" \o V.s \o ".*")
                                 @@ "$options" :> PyStr("i")))
      [] OTHER -> PyDict(F.s :> PyDict(op.s :> V))

CompiledElements(es) == PyList([i \in 1..Len(es) |-> doBuildSingle(es[i]).val])

\* C1: make on a CombinedFilter with a recognized operator and a non-empty
\* list of well-typed elements returns {operator: [build(f1), ..., build(fn)]},
\* the compiled elements in their original order.
C1_MakeCombinesInOrder ==
    (/\ IsA("CombinedFilter")
     /\ self.attrs.operator.s \in CombineTokens
     /\ self.attrs.filter_elements.items # <<>>
     /\ \A i \in DOMAIN self.attrs.filter_elements.items :
            doBuildSingle(self.attrs.filter_elements.items[i]).kind = "return")
    => \A out \in OutsOf("make") :
            out = Return(PyDict(self.attrs.operator.s
                                :> CompiledElements(self.attrs.filter_elements.items)))

\* C2: make on a SingleFilter with a recognized operator and a value that
\* satisfies the operator's type constraint returns the document of the
\* operator table ({F: V} for EQ, {F: {token: V}} otherwise, the regex
\* document for CONTAINS).
C2_MakeSingleFollowsTable ==
    (/\ IsA("SingleFilter")
     /\ self.attrs.operator_field.s \in FieldTokens
     /\ ~ConstraintViolated(self.attrs.operator_field, self.attrs.value)
     /\ (self.attrs.operator_field.s = "$regex" => self.attrs.value.t = "str"))
    => \A out \in OutsOf("make") :
            out = Return(TableDoc(self.attrs.field, self.attrs.value,
                                  self.attrs.operator_field))

\* C3: apply returns true exactly when the operator tag is one of the
\* enumerated tokens, for SingleFilter and for CombinedFilter alike.
C3_ApplyIsMembership ==
    /\ IsA("SingleFilter") =>
        \A out \in OutsOf("apply") :
            out = Return(PyBool(self.attrs.operator_field.s \in FieldTokens))
    /\ IsA("CombinedFilter") =>
        \A out \in OutsOf("apply") :
            out = Return(PyBool(self.attrs.operator.s \in CombineTokens))

C5_UnknownTagGivesEmpty ==
    /\ (IsA("SingleFilter") /\ self.attrs.operator_field.s \notin FieldTokens) =>
        \A out \in OutsOf("doBuildSingle") : out = Return(EmptyDict)
    /\ (IsA("CombinedFilter") /\ self.attrs.operator.s \notin CombineTokens) =>
        \A out \in OutsOf("make") : out = Return(EmptyDict)

\* C6: whatever error the downstream handler raises, dispatch returns a
\* response and lets no exception escape.
C6_DispatchAlwaysResponds ==
    (thrown.kind = "raise" /\ "Exception" \in Bases(thrown.exc))
    => response.kind = "return"

\* the body C7 describes for a caught error
ExpectedContent(e) ==
    LET c0 == OrderedDict(<< <<"detail", IF hasattr(e, "detail") THEN e.attrs.detail
                                         ELSE PyStr("Internal server error.")>> >>)
        c1 == IF hasattr(e, "obj") THEN SetItem(c0, "obj", e.attrs.obj) ELSE c0
        c2 == IF hasattr(e, "args") THEN SetItem(c1, "args", e.attrs.args) ELSE c1
    IN IF hasattr(e, "_errors") THEN SetItem(c2, "errors", e.attrs["_errors"]) ELSE c2

\* C7: the normalized response carries the error's status_code (500 without
\* one) and a JSON body whose detail is the error's detail ("Internal server
\* error." without one), with obj, args and errors exactly when exposed.
C7_ResponseCarriesErrorFields ==
    (thrown.kind = "raise" /\ "Exception" \in Bases(thrown.exc)
     /\ response.kind = "return")
    => /\ response.val.attrs.status_code =
            (IF hasattr(thrown.val, "status_code") THEN thrown.val.attrs.status_code
             ELSE PyInt(500))
       /\ response.val.attrs.body = PyStr(JsonText(ExpectedContent(thrown.val)))

HasShape(out, F, keys) ==
    /\ out.kind = "return"
    /\ DOMAIN out.val.d = {F.s}
    /\ out.val.d[F.s].t = "dict"
    /\ DOMAIN out.val.d[F.s].d = keys

\* C9 as stated: for every tag but EQ and every well-typed value, the built
\* document has F as its sole key, over a mapping whose only key is the
\* tag's wire token.
C9_SingleKeyMapping ==
    (/\ IsA("SingleFilter")
     /\ self.attrs.operator_field.s \in FieldTokens \ {"$eq"}
     /\ ~ConstraintViolated(self.attrs.operator_field, self.attrs.value))
    => \A out \in OutsOf("doBuildSingle") :
            HasShape(out, self.attrs.field, {self.attrs.operator_field.s})

\* C9 amended: the same for every tag but EQ and CONTAINS; for CONTAINS the
\* mapping under F has the two keys $regex and $options.
C9_SingleKeyMappingButContains ==
    (/\ IsA("SingleFilter")
     /\ self.attrs.operator_field.s \in FieldTokens \ {"$eq"}
     /\ ~ConstraintViolated(self.attrs.operator_field, self.attrs.value))
    => \A out \in OutsOf("doBuildSingle") :
            HasShape(out, self.attrs.field,
                     IF self.attrs.operator_field.s = "$regex"
                     THEN {"$regex", "$options"}
                     ELSE {self.attrs.operator_field.s})

C9_Witness ==
    /\ IsA("SingleFilter")
    /\ self.attrs.operator_field = PyStr("$in")
    /\ self.attrs.value.t = "list"
    /\ \E out \in OutsOf("doBuildSingle") : out.kind = "return"

\* C10: make on a CombinedFilter with an empty elements list and a recognized
\* operator returns the empty combination {operator: []} and does not raise.
C10_EmptyCombination ==
    (/\ IsA("CombinedFilter")
     /\ self.attrs.filter_elements.items = <<>>
     /\ self.attrs.operator.s \in CombineTokens)
    => \A out \in OutsOf("make") :
            out = Return(PyDict(self.attrs.operator.s :> PyList(<<>>)))

====
